---- MODULE Spec2Model ----
(***************************************************************************)
(* Model of the replaygain crate's public session type ReplayGain          *)
(* (src/lib.rs): rate-validated construction, the strict per-frame entry   *)
(* point, the buffered entry point with its pending buffer, and the        *)
(* consuming finish.                                                       *)
(*                                                                         *)
(* Samples are f32 values; the model draws them from the integers, which   *)
(* f32 represents exactly, so abs and max are exact.  The analysis         *)
(* pipeline of module af_replaygain is kept as the sequence of frames it   *)
(* was handed plus its running peak.                                       *)
(***************************************************************************)
EXTENDS Integers, Sequences, FiniteSets, TLC

VARIABLES rate, kind, rg, pc, panic_at, pos, used, last, result

vars == <<rate, kind, rg, pc, panic_at, pos, used, last, result>>

\* ------------------------------------------------------------------ bounds
\* Sessions are driven through the processing calls only for rates up to
\* MaxProcRate, and only until MaxFrames frames' worth (plus a partial
\* frame) of samples have been submitted.
MaxProcRate == 8000
MaxFrames == 2

\* ------------------------------------------------------------ small helpers
NoValue == [none |-> TRUE]

Abs(x) == IF x < 0 THEN -x ELSE x

Max(a, b) == IF a > b THEN a ELSE b

Min(a, b) == IF a < b THEN a ELSE b

Zeros(n) == [i \in 1..n |-> 0]

\* greatest absolute value of s[lo..hi], 0 for an empty range
RECURSIVE MaxAbsRange(_, _, _)
MaxAbsRange(s, lo, hi) ==
    IF lo > hi THEN 0
    ELSE IF lo = hi THEN Abs(s[lo])
    ELSE LET mid == (lo + hi) \div 2
         IN Max(MaxAbsRange(s, lo, mid), MaxAbsRange(s, mid + 1, hi))

MaxAbs(s) == MaxAbsRange(s, 1, Len(s))

\* ------------------------------------------------- af_replaygain (pipeline)
\* The rates listed in the crate documentation.
SupportedRates ==
    {8000, 11025, 12000, 16000, 18900, 22050, 24000, 32000, 37800, 44100,
     48000, 56000, 64000, 88200, 96000, 112000, 128000, 144000, 176400, 192000}

\* Option<info>: a profile exactly for the enumerated rates.
freq_to_info(sample_rate) ==
    IF sample_rate \in SupportedRates THEN [rate |-> sample_rate] ELSE NoValue

\* A fresh analysis context: nothing analysed, peak 0.
init_context(info) == [frames |-> << >>, peak |-> 0]

\* The peak tracker: greater of the current peak and |sample|, over the frame.
observe_peak(peak, frame) == Max(peak, MaxAbs(frame))

\* One frame handed to the pipeline.
filter_frame(ctx, frame) ==
    [frames |-> Append(ctx.frames, frame),
     peak   |-> observe_peak(ctx.peak, frame)]

\* The pipeline's final query.  The gain is a deterministic function of the
\* frames analysed, in order; the model keeps that argument itself.
ctx_finish(ctx) == [gain_of |-> ctx.frames, peak |-> ctx.peak]

\* The window lengths a profile may have for a frame of fs samples: the spec
\* fixes only that the window evenly divides the frame.
WindowLens(fs) == {w \in 1..fs : fs % w = 0}

\* Windows the windower has handed to the histogram, for window length w:
\* one per complete window of every frame analysed.
RECURSIVE windows_recorded(_, _)
windows_recorded(frames, w) ==
    IF frames = << >> THEN 0
    ELSE windows_recorded(SubSeq(frames, 1, Len(frames) - 1), w)
           + (Len(frames[Len(frames)]) \div w)

\* Windows of exactly zero energy, which go to the floor bin: those of the
\* leading all-zero frames (zero input on a zero filter state).
RECURSIVE silent_windows(_, _)
silent_windows(frames, w) ==
    IF frames = << >> THEN 0
    ELSE LET before == SubSeq(frames, 1, Len(frames) - 1)
             this == frames[Len(frames)]
         IN IF MaxAbs(this) = 0
                 /\ silent_windows(before, w) = windows_recorded(before, w)
            THEN silent_windows(before, w) + (Len(this) \div w)
            ELSE silent_windows(before, w)

\* The histogram's percentile query: the sentinel when no window was ever
\* recorded, the floor bin's gain when every window is in the floor bin,
\* otherwise a gain measured from the frames.
percentile_gain(frames, w) ==
    IF windows_recorded(frames, w) = 0 THEN "sentinel"
    ELSE IF silent_windows(frames, w) = windows_recorded(frames, w) THEN "floor"
    ELSE "measured"

\* ------------------------------------------------------------- ReplayGain
\* new with a nearest-rate fallback: the greatest supported rate not above
\* the requested one stands in for an unsupported rate
new_fallback(sample_rate) ==
    LET below == {r \in SupportedRates : r <= sample_rate}
        near == CHOOSE r \in below : \A q \in below : q <= r
    IN IF below = {} THEN NoValue
       ELSE [sample_rate |-> near, ctx |-> init_context(freq_to_info(near)),
             buf |-> << >>]

\* ReplayGain::new
new(sample_rate) ==
    LET x == freq_to_info(sample_rate)
    IN IF x = NoValue THEN NoValue
       ELSE [sample_rate |-> sample_rate, ctx |-> init_context(x), buf |-> << >>]

\* frame_size with the two integer operations folded into one division
frame_size_tenth(self) == self.sample_rate \div 10

\* frame_size for a fifth of a second
frame_size_fifth(self) == (self.sample_rate \div 5) * 2

\* frame_size counting stereo pairs instead of floats
frame_size_unpaired(self) == self.sample_rate \div 20

\* ReplayGain::frame_size
frame_size(self) == (self.sample_rate \div 20) * 2

\* Outcome of a call that may panic: the session as the call left it and the
\* source line of the failed assertion (0: returned normally).  A panic is
\* fatal: no further call is made on the session.
Ok(self) == [self |-> self, panic |-> 0]

Panic(self, line) == [self |-> self, panic |-> line]

\* process_frame without the check of the pending buffer (line 99)
process_frame_unchecked(self, frame) ==
    IF ~(Len(frame) = frame_size(self)) THEN Panic(self, 98)
    ELSE Ok([self EXCEPT !.ctx = filter_frame(self.ctx, frame)])

\* ReplayGain::process_frame
process_frame(self, frame) ==
    IF ~(Len(frame) = frame_size(self)) THEN Panic(self, 98)
    ELSE IF ~(self.buf = << >>) THEN Panic(self, 99)
    ELSE Ok([self EXCEPT !.ctx = filter_frame(self.ctx, frame)])

\* can_fill with a strict comparison
can_fill_strict(frame, required) == Len(frame) > required

\* process_samples, line 116
can_fill(frame, required) == Len(frame) >= required

\* the loop keeping a full chunk in the pending buffer when it is the last one
RECURSIVE chunks_loop_lazy(_, _)
chunks_loop_lazy(r, remainder) ==
    LET self == r.self
        fs == frame_size(self)
    IN IF r.panic # 0 \/ remainder = << >> THEN r
       ELSE IF fs = 0 THEN Panic(self, 129)
       ELSE LET n == Min(fs, Len(remainder))
                chunk == SubSeq(remainder, 1, n)
                rest == SubSeq(remainder, n + 1, Len(remainder))
            IN IF Len(chunk) = fs /\ rest # << >>
               THEN IF ~(self.buf = << >>) THEN Panic(self, 131)
                    ELSE chunks_loop_lazy(
                           Ok([self EXCEPT !.ctx = filter_frame(self.ctx, chunk)]),
                           rest)
               ELSE chunks_loop_lazy(Ok([self EXCEPT !.buf = self.buf \o chunk]), rest)

\* process_samples, lines 129-137: the loop over remainder.chunks(frame_size)
RECURSIVE chunks_loop(_, _)
chunks_loop(r, remainder) ==
    LET self == r.self
        fs == frame_size(self)
    IN IF r.panic # 0 \/ remainder = << >> THEN r
       ELSE IF fs = 0 THEN Panic(self, 129)
       ELSE LET n == Min(fs, Len(remainder))
                chunk == SubSeq(remainder, 1, n)
                rest == SubSeq(remainder, n + 1, Len(remainder))
            IN IF Len(chunk) = fs
               THEN IF ~(self.buf = << >>) THEN Panic(self, 131)
                    ELSE chunks_loop(
                           Ok([self EXCEPT !.ctx = filter_frame(self.ctx, chunk)]),
                           rest)
               ELSE chunks_loop(Ok([self EXCEPT !.buf = self.buf \o chunk]), rest)

\* flush_buf continuing with the whole chunk instead of frame[input..]
flush_buf_whole(self, frame, input) ==
    IF ~(Len(self.buf) = frame_size(self)) THEN Panic(self, 120)
    ELSE chunks_loop(
           Ok([self EXCEPT !.ctx = filter_frame(self.ctx, self.buf),
                           !.buf = << >>]),
           frame)

\* flush_buf without self.buf.clear() (line 122)
flush_buf_noclear(self, frame, input) ==
    IF ~(Len(self.buf) = frame_size(self)) THEN Panic(self, 120)
    ELSE chunks_loop(
           Ok([self EXCEPT !.ctx = filter_frame(self.ctx, self.buf)]),
           SubSeq(frame, input + 1, Len(frame)))

\* flush_buf handing the frame to a re-initialised context
flush_buf_reset(self, frame, input) ==
    IF ~(Len(self.buf) = frame_size(self)) THEN Panic(self, 120)
    ELSE chunks_loop(
           Ok([self EXCEPT !.ctx = filter_frame(init_context(freq_to_info(self.sample_rate)),
                                                self.buf),
                           !.buf = << >>]),
           SubSeq(frame, input + 1, Len(frame)))

\* flush_buf clearing the topped-up buffer without handing it to the pipeline
flush_buf_nodispatch(self, frame, input) ==
    IF ~(Len(self.buf) = frame_size(self)) THEN Panic(self, 120)
    ELSE chunks_loop(Ok([self EXCEPT !.buf = << >>]),
                     SubSeq(frame, input + 1, Len(frame)))

\* process_samples, lines 119-124: the topped-up buffer is a frame
flush_buf(self, frame, input) ==
    IF ~(Len(self.buf) = frame_size(self)) THEN Panic(self, 120)
    ELSE chunks_loop(
           Ok([self EXCEPT !.ctx = filter_frame(self.ctx, self.buf),
                           !.buf = << >>]),
           SubSeq(frame, input + 1, Len(frame)))

\* drain_buf replacing the pending samples by the chunk's instead of
\* extending them
drain_buf_overwrite(self, frame) ==
    LET required == frame_size(self) - Len(self.buf)
        input == IF can_fill(frame, required) THEN required ELSE Len(frame)
        topped == [self EXCEPT !.buf = SubSeq(frame, 1, input)]
    IN IF required < 0 THEN Panic(self, 115)
       ELSE IF can_fill(frame, required) THEN flush_buf(topped, frame, input)
       ELSE Ok(topped)

\* drain_buf without the if can_fill guard of line 119
drain_buf_noguard(self, frame) ==
    LET required == frame_size(self) - Len(self.buf)
        input == IF can_fill(frame, required) THEN required ELSE Len(frame)
        topped == [self EXCEPT !.buf = self.buf \o SubSeq(frame, 1, input)]
    IN IF required < 0 THEN Panic(self, 115)
       ELSE flush_buf(topped, frame, input)

\* process_samples, lines 113-124: drain the pending buffer first.  The usize
\* subtraction of line 115 cannot go below zero; where it would, the model
\* reports a panic at that line (the overflow check of a debug build).
drain_buf(self, frame) ==
    LET required == frame_size(self) - Len(self.buf)
        input == IF can_fill(frame, required) THEN required ELSE Len(frame)
        topped == [self EXCEPT !.buf = self.buf \o SubSeq(frame, 1, input)]
    IN IF required < 0 THEN Panic(self, 115)
       ELSE IF can_fill(frame, required) THEN flush_buf(topped, frame, input)
       ELSE Ok(topped)

\* process_samples without the else branch of line 125: a chunk arriving on
\* an empty pending buffer leaves remainder at None
process_samples_noelse(self, frame) ==
    IF ~(self.buf = << >>) THEN drain_buf(self, frame)
    ELSE Ok(self)

\* ReplayGain::process_samples
process_samples(self, frame) ==
    IF ~(self.buf = << >>) THEN drain_buf(self, frame)
    ELSE chunks_loop(Ok(self), frame)

\* Vec::resize(new_len, 0.0)
resize(buf, new_len) ==
    IF Len(buf) >= new_len THEN SubSeq(buf, 1, new_len)
    ELSE buf \o Zeros(new_len - Len(buf))

\* finish that flushes only a non-empty pending buffer
finish_skip_empty(self) ==
    IF self.buf = << >> THEN ctx_finish(self.ctx)
    ELSE ctx_finish(filter_frame(self.ctx, resize(self.buf, frame_size(self))))

\* finish that queries the pipeline without flushing the pending buffer
finish_noflush(self) == ctx_finish(self.ctx)

\* finish without the resize of line 143: the pending samples go unpadded
finish_nopad(self) == ctx_finish(filter_frame(self.ctx, self.buf))

\* ReplayGain::finish
finish(self) ==
    LET padded == resize(self.buf, frame_size(self))
    IN ctx_finish(filter_frame(self.ctx, padded))

\* finish borrowing the session (&mut self) instead of taking it
consumed_borrowed(self) ==
    [self EXCEPT !.ctx = filter_frame(self.ctx, resize(self.buf, frame_size(self))),
                 !.buf = << >>]

\* ReplayGain::finish takes self by value (line 141): the session is gone
consumed(self) == NoValue

\* ------------------------------------------------------------ the caller
\* The stream the caller is going to submit, sample by position.
SampleAt(k, i) ==
    CASE k.k = "ramp"    -> IF i % 2 = 1 THEN i ELSE -i
      [] k.k = "zero"    -> 0
      [] k.k = "impulse" -> IF i = k.at THEN 1 ELSE 0

ImpulseAt == {1, 801, 1700}

StreamKinds ==
    {[k |-> "ramp"], [k |-> "zero"]} \cup {[k |-> "impulse", at |-> p] : p \in ImpulseAt}

\* the next n samples of the stream
Slice(k, from, n) == [i \in 1..n |-> SampleAt(k, from + i)]

\* everything submitted so far
submitted == Slice(kind, 0, pos)

RateCandidates ==
    {0, 1, 19, 20, 4000, 44099, 44101, 200000}
      \cup UNION {{r - 1, r, r + 1} : r \in SupportedRates}

StreamLimit(self) == MaxFrames * frame_size(self) + frame_size(self) \div 2

\* chunk lengths the caller tries on a live session
ChunkLens(self) ==
    LET fs == frame_size(self)
        required == fs - Len(self.buf)
    IN {0, fs \div 3 + 1, required, required + 1, fs - 1, fs, 2 * fs + 1}

FrameLens(self) ==
    LET fs == frame_size(self) IN {0, fs - 1, fs, fs + 1}

Driven(self) == self.sample_rate <= MaxProcRate

NoCall == [op |-> "none", len |-> 0, pending |-> 0]

Init ==
    /\ rate \in RateCandidates
    /\ kind \in StreamKinds
    /\ rg = NoValue
    /\ pc = "start"
    /\ panic_at = 0
    /\ pos = 0
    /\ used = {}
    /\ last = NoCall
    /\ result = NoValue

New ==
    /\ pc = "start"
    /\ rg' = new(rate)
    /\ pc' = IF new(rate) = NoValue THEN "rejected" ELSE "live"
    /\ last' = [op |-> "new", len |-> 0, pending |-> 0]
    /\ UNCHANGED <<rate, kind, panic_at, pos, used, result>>

ProcessSamples ==
    /\ pc = "live"
    /\ Driven(rg)
    /\ \E n \in ChunkLens(rg) :
         /\ n >= 0
         /\ pos + n <= StreamLimit(rg)
         /\ LET r == process_samples(rg, Slice(kind, pos, n))
            IN /\ rg' = r.self
               /\ panic_at' = r.panic
               /\ pc' = IF r.panic = 0 THEN "live" ELSE "panicked"
               /\ pos' = pos + n
               /\ used' = used \cup {"process_samples"}
               /\ last' = [op |-> "process_samples", len |-> n, pending |-> Len(rg.buf)]
    /\ UNCHANGED <<rate, kind, result>>

ProcessFrame ==
    /\ pc = "live"
    /\ Driven(rg)
    /\ \E n \in FrameLens(rg) :
         /\ n >= 0
         /\ pos + n <= StreamLimit(rg)
         /\ LET r == process_frame(rg, Slice(kind, pos, n))
            IN /\ rg' = r.self
               /\ panic_at' = r.panic
               /\ pc' = IF r.panic = 0 THEN "live" ELSE "panicked"
               /\ pos' = IF r.panic = 0 THEN pos + n ELSE pos
               /\ used' = used \cup {"process_frame"}
               /\ last' = [op |-> "process_frame", len |-> n, pending |-> Len(rg.buf)]
    /\ UNCHANGED <<rate, kind, result>>

Finish ==
    /\ pc = "live"
    /\ Driven(rg)
    /\ result' = finish(rg)
    /\ rg' = consumed(rg)
    /\ pc' = IF consumed(rg) = NoValue THEN "finished" ELSE "live"
    /\ last' = [op |-> "finish", len |-> 0, pending |-> Len(rg.buf)]
    /\ UNCHANGED <<rate, kind, panic_at, pos, used>>

Next == New \/ ProcessSamples \/ ProcessFrame \/ Finish

Spec == Init /\ [][Next]_vars

\* ------------------------------------------------------------ references
\* The whole stream in one process_samples call on a fresh session, then finish.
OneCall(sample_rate, samples) ==
    finish(process_samples(new(sample_rate), samples).self)

\* process_frame once per consecutive frame_size() slice
RECURSIVE strict_frames(_, _)
strict_frames(self, samples) ==
    IF samples = << >> THEN self
    ELSE LET fs == frame_size(self)
         IN strict_frames(process_frame(self, SubSeq(samples, 1, fs)).self,
                          SubSeq(samples, fs + 1, Len(samples)))

\* The whole (frame-aligned) stream through process_frame, then finish.
StrictCalls(sample_rate, samples) ==
    finish(strict_frames(new(sample_rate), samples))

\* ------------------------------------------------------------------ claims

\* C1: a session fed through process_samples only, in whatever chunks, and
\* then finished returns what one process_samples call with the whole stream
\* followed by finish returns: the same frames analysed, the same peak.
ChunkingInvariance ==
    (pc = "finished" /\ used \subseteq {"process_samples"})
        => result = OneCall(rate, submitted)

\* four short chunks, crossing one frame boundary, then finish
ChunkingInvarianceWitness ==
    /\ pc = "finished"
    /\ used = {"process_samples"}
    /\ pos = 4 * ((((rate \div 20) * 2) \div 3) + 1)
    /\ Len(result.gain_of) = 2

\* C2: for a stream whose length is a multiple of frame_size(), a session fed
\* through process_samples returns at finish what a session fed one
\* process_frame call per frame returns.
StrictFrameEquivalence ==
    (/\ pc = "finished"
     /\ used \subseteq {"process_samples"}
     /\ pos % ((rate \div 20) * 2) = 0)
        => result = StrictCalls(rate, submitted)

\* two frames' worth submitted through process_samples, then finish
StrictFrameEquivalenceWitness ==
    /\ pc = "finished"
    /\ used = {"process_samples"}
    /\ pos = 2 * ((rate \div 20) * 2)
    /\ Len(result.gain_of) = 3

\* C3: between calls the pending buffer holds fewer than frame_size() samples.
PendingBufferBound ==
    pc = "live" => (Len(rg.buf) >= 0 /\ Len(rg.buf) < frame_size(rg))

\* a process_samples call left the longest possible partial frame
PendingBufferBoundWitness ==
    /\ pc = "live"
    /\ last.op = "process_samples"
    /\ Len(rg.buf) = frame_size(rg) - 1

\* C4: process_samples never fails: neither the assertion of line 120 nor the
\* one of line 131 (nor any other step of the call) panics.
ProcessSamplesNeverPanics ==
    /\ panic_at \notin {115, 120, 129, 131}
    /\ last.op = "process_samples" => (pc = "live" /\ panic_at = 0)

\* a call that topped up the pending buffer (line 120) and then dispatched a
\* full slice of the chunk directly (line 131)
ProcessSamplesNeverPanicsWitness ==
    /\ pc = "live"
    /\ last.op = "process_samples"
    /\ last.pending > 0
    /\ last.len >= (frame_size(rg) - last.pending) + frame_size(rg)
    /\ last.len % 2 = 1

\* C5: a process_frame call panics when the frame's length is not
\* frame_size() or the pending buffer is not empty, and then dispatches
\* nothing and leaves the pending buffer as it was; otherwise it dispatches
\* exactly the given frame and leaves the pending buffer empty.
ProcessFrameContract ==
    [][(pc = "live" /\ last'.op = "process_frame") =>
          IF last'.len # frame_size(rg) \/ rg.buf # << >>
          THEN /\ pc' = "panicked"
               /\ panic_at' \in {98, 99}
               /\ rg'.ctx = rg.ctx
               /\ rg'.buf = rg.buf
          ELSE /\ pc' = "live"
               /\ rg'.ctx.frames = Append(rg.ctx.frames, Slice(kind, pos, last'.len))
               /\ rg'.buf = << >>]_vars

\* a frame of the right length refused because samples are pending
ProcessFrameContractWitness ==
    /\ pc = "panicked"
    /\ panic_at = 99
    /\ last.op = "process_frame"
    /\ last.len = frame_size(rg)
    /\ last.pending > 0
    /\ Len(rg.buf) = last.pending

\* C6: finish dispatches exactly one more frame, of length frame_size(): the
\* pending samples in order, then zeros; also when nothing is pending; a
\* session that received N samples has then dispatched N div frame_size() + 1
\* frames.
FinishZeroPads ==
    [][(pc = "live" /\ last'.op = "finish") =>
          LET fs == frame_size(rg)
              out == result'.gain_of
              final == out[Len(out)]
          IN /\ Len(out) = Len(rg.ctx.frames) + 1
             /\ SubSeq(out, 1, Len(out) - 1) = rg.ctx.frames
             /\ Len(final) = fs
             /\ \A i \in 1..fs :
                  final[i] = IF i <= Len(rg.buf) THEN rg.buf[i] ELSE 0
             /\ Len(out) = (pos \div fs) + 1]_vars

\* finish on an empty pending buffer after two frames: an all-zero third frame
FinishZeroPadsWitness ==
    /\ pc = "finished"
    /\ last.pending = 0
    /\ pos = 2 * ((rate \div 20) * 2)
    /\ Len(result.gain_of) = 3
    /\ result.gain_of[3] = Zeros((rate \div 20) * 2)

\* C7: new creates a session exactly for the twenty enumerated rates, with
\* that very rate; any other rate yields None and no session.
RateValidation ==
    LET listed == {8000, 11025, 12000, 16000, 18900, 22050, 24000, 32000,
                   37800, 44100, 48000, 56000, 64000, 88200, 96000, 112000,
                   128000, 144000, 176400, 192000}
    IN /\ pc = "rejected" => (rate \notin listed /\ rg = NoValue)
       /\ pc = "live" => (rate \in listed /\ rg.sample_rate = rate)
       /\ (pc # "start" /\ rate \notin listed) => pc = "rejected"
       /\ (pc # "start" /\ rate \in listed) => pc # "rejected"

\* 44101 rejected
RateValidationWitness ==
    /\ pc = "rejected"
    /\ rate = 44101
    /\ rg = NoValue

\* C8: throughout a session's life frame_size() is (rate / 20) * 2 for the
\* rate given to new; 4410 for 44100.
FrameSizeValue ==
    (rg # NoValue) =>
        /\ frame_size(rg) = (rate \div 20) * 2
        /\ rate = 44100 => frame_size(rg) = 4410

FrameSizeValueWitness ==
    /\ pc = "live"
    /\ rate = 44100
    /\ frame_size(rg) = 4410

\* C9 as stated: a frame is the interleaved stereo sample count of one fifth
\* of a second.
FrameIsFifthOfSecond ==
    (rg # NoValue) => frame_size(rg) = (rate \div 5) * 2

\* C9 amended: a frame is the interleaved stereo sample count of one
\* twentieth of a second: a whole number of stereo pairs, the most that fit
\* twenty times into one second's worth.
FrameIsTwentiethOfSecond ==
    (rg # NoValue) =>
        LET pairs == frame_size(rg) \div 2
        IN /\ frame_size(rg) = 2 * pairs
           /\ 20 * pairs <= rate
           /\ rate < 20 * (pairs + 1)

FrameIsTwentiethOfSecondWitness ==
    /\ pc = "live"
    /\ rate = 48000
    /\ frame_size(rg) = 4800

\* C10: the peak finish returns is the greatest absolute value among all
\* samples submitted, pending ones included; one sample of 1.0 among zeros
\* gives exactly 1.
PeakCoversEverySample ==
    (pc = "finished") =>
        /\ \A i \in 1..pos : Abs(SampleAt(kind, i)) <= result.peak
        /\ pos > 0 => \E i \in 1..pos : Abs(SampleAt(kind, i)) = result.peak
        /\ pos = 0 => result.peak = 0
        /\ (kind.k = "impulse" /\ pos >= kind.at) => result.peak = 1

\* the impulse was still pending when finish was called
PeakCoversEverySampleWitness ==
    /\ pc = "finished"
    /\ kind.k = "impulse"
    /\ kind.at > 2 * ((rate \div 20) * 2)
    /\ pos >= kind.at
    /\ last.pending > 0
    /\ result.peak = 1

\* all frames dispatched, end to end
RECURSIVE Flatten(_)
Flatten(frames) ==
    IF frames = << >> THEN << >>
    ELSE Flatten(SubSeq(frames, 1, Len(frames) - 1)) \o frames[Len(frames)]

IsPrefix(a, b) == Len(a) <= Len(b) /\ SubSeq(b, 1, Len(a)) = a

\* C11: the tracked peak never decreases over a step of a session, and the
\* peak finish would return after a prefix is at most the peak it would
\* return after an extension.
PeakMonotone ==
    [][/\ (pc = "live" /\ pc' \in {"live", "panicked"}) =>
            /\ rg'.ctx.peak >= rg.ctx.peak
            /\ finish(rg').peak >= finish(rg).peak
       /\ (pc = "live" /\ pc' = "finished") => result'.peak >= rg.ctx.peak]_vars

\* the peak has risen in mid-session: the impulse opens the second frame
PeakMonotoneWitness ==
    /\ pc = "live"
    /\ kind.k = "impulse"
    /\ kind.at = ((rate \div 20) * 2) + 1
    /\ Len(rg.ctx.frames) = 2
    /\ rg.ctx.peak = 1

HistogramTotal ==
    (pc = "live" /\ pos % frame_size(rg) = 0) =>
        LET fs == frame_size(rg)
            k == pos \div fs
        IN /\ Len(rg.ctx.frames) = k
           /\ \A w \in WindowLens(fs) :
                windows_recorded(rg.ctx.frames, w) = k * (fs \div w)

\* two frames through process_samples: four half-frame windows
HistogramTotalWitness ==
    /\ pc = "live"
    /\ used = {"process_samples"}
    /\ pos = 2 * frame_size(rg)
    /\ windows_recorded(rg.ctx.frames, frame_size(rg) \div 2) = 4

\* C14: finish is taken at most once and is terminal: once it has returned
\* no step of the session follows, and the finish step itself ends the
\* session.
OneShotFinish ==
    [][/\ result = NoValue
       /\ last'.op = "finish" => (pc' = "finished" /\ rg' = NoValue)]_vars

OneShotFinishWitness ==
    /\ pc = "finished"
    /\ last.op = "finish"
    /\ result # NoValue
    /\ rg = NoValue
    /\ pos > 0

\* C15: between calls the dispatched frames followed by the pending buffer
\* are exactly the samples submitted, in order, and every dispatched frame
\* has frame_size() samples.
SampleConservation ==
    (pc = "live") =>
        /\ \A j \in 1..Len(rg.ctx.frames) : Len(rg.ctx.frames[j]) = frame_size(rg)
        /\ Flatten(rg.ctx.frames) \o rg.buf = submitted

\* two frames dispatched and a partial one pending, all samples distinct
SampleConservationWitness ==
    /\ pc = "live"
    /\ kind.k = "ramp"
    /\ used = {"process_samples"}
    /\ Len(rg.ctx.frames) = 2
    /\ Len(rg.buf) > 0

\* C16: after a process_samples call with N samples submitted in all,
\* N div frame_size() frames have been dispatched and N mod frame_size()
\* samples are pending.
EagerDispatch ==
    (pc = "live" /\ last.op = "process_samples") =>
        /\ Len(rg.ctx.frames) = pos \div frame_size(rg)
        /\ Len(rg.buf) = pos % frame_size(rg)

\* the chunk ended exactly on a frame boundary, completing a pending frame
EagerDispatchWitness ==
    /\ pc = "live"
    /\ last.op = "process_samples"
    /\ last.pending > 0
    /\ last.len = frame_size(rg) - last.pending
    /\ Len(rg.buf) = 0
    /\ Len(rg.ctx.frames) = 1

\* C17: a process_samples call whose chunk cannot complete a frame
\* dispatches nothing, leaves the analysis context as it was and appends the
\* chunk to the pending buffer; the context is the one new created and is
\* never started afresh: what it has analysed only grows.
ShortChunkEffect ==
    [][/\ (/\ pc = "live"
           /\ last'.op = "process_samples"
           /\ last'.len < frame_size(rg) - Len(rg.buf)) =>
              /\ pc' = "live"
              /\ rg'.ctx = rg.ctx
              /\ rg'.buf = rg.buf \o Slice(kind, pos, last'.len)
       /\ (pc = "start" /\ pc' = "live") =>
              (rg'.ctx.frames = << >> /\ rg'.ctx.peak = 0)
       /\ (pc = "live" /\ pc' = "live") =>
              IsPrefix(rg.ctx.frames, rg'.ctx.frames)]_vars

\* a short chunk appended to samples already pending
ShortChunkEffectWitness ==
    /\ pc = "live"
    /\ last.op = "process_samples"
    /\ last.pending > 0
    /\ last.len > 0
    /\ last.len < frame_size(rg) - last.pending
    /\ Len(rg.buf) = last.pending + last.len

\* C18: frame_size() is even and positive, the j-th dispatched frame starts
\* at stream offset (j - 1) * frame_size(), and so a sample keeps the parity
\* of its stream position inside its frame: left stays left, right right.
ChannelAlignment ==
    /\ (rg # NoValue) => (frame_size(rg) > 0 /\ frame_size(rg) % 2 = 0)
    /\ (pc = "live") =>
         \A j \in 1..Len(rg.ctx.frames) :
            \A i \in 1..Len(rg.ctx.frames[j]) :
               LET at == (j - 1) * frame_size(rg) + i
               IN /\ rg.ctx.frames[j][i] = SampleAt(kind, at)
                  /\ at % 2 = i % 2
                  /\ kind.k = "ramp" => (rg.ctx.frames[j][i] > 0 <=> i % 2 = 1)

\* an odd-length chunk was taken and the second frame still starts on a
\* left sample
ChannelAlignmentWitness ==
    /\ pc = "live"
    /\ kind.k = "ramp"
    /\ last.op = "process_samples"
    /\ last.len % 2 = 1
    /\ Len(rg.ctx.frames) = 2
    /\ rg.ctx.frames[2][1] > 0
    /\ rg.ctx.frames[2][2] < 0

TypeOK ==
    /\ pc \in {"start", "rejected", "live", "panicked", "finished"}
    /\ pos >= 0
====
